---- MODULE Spec2Model ----
(***************************************************************************)
(* Model of src/src/main.rs: a ship simulator driven by single-letter      *)
(* navigation instructions (read_instructions, rotate_waypoint,            *)
(* Ship::plot, Ship::plot_with_waypoint, main).                            *)
(*                                                                         *)
(* Every number of the program is an i64.  TLC's own integers are 32 bits  *)
(* wide, so an i64 is modelled at its full width as a sign and a magnitude *)
(* of 15-bit limbs (least significant first): the overflow of a 64-bit     *)
(* addition or multiplication happens in the model exactly where it        *)
(* happens in the program.                                                 *)
(***************************************************************************)
EXTENDS Integers, Sequences, FiniteSets, TLC

(***************************************************************************)
(* Natural numbers of any size: a sequence of limbs 0..Base-1, least       *)
(* significant first, without leading (trailing in the sequence) zeros.    *)
(***************************************************************************)
LimbBits == 15

Base == 2 ^ LimbBits

\* a * Base^n, and 2^n
RECURSIVE NShift(_, _)
NShift(a, n) == IF n = 0 \/ a = <<>> THEN a ELSE <<0>> \o NShift(a, n - 1)

TwoTo(n) == NShift(<<2 ^ (n % LimbBits)>>, n \div LimbBits)

Rest(a) == IF a = <<>> THEN <<>> ELSE Tail(a)

Limb(a, i) == IF i <= Len(a) THEN a[i] ELSE 0

RECURSIVE NTrim(_)
NTrim(a) ==
    IF a = <<>> THEN a
    ELSE IF a[Len(a)] = 0 THEN NTrim(SubSeq(a, 1, Len(a) - 1))
    ELSE a

RECURSIVE NOfInt(_)
NOfInt(n) == IF n = 0 THEN <<>> ELSE <<n % Base>> \o NOfInt(n \div Base)

RECURSIVE NToInt(_)
NToInt(a) == IF a = <<>> THEN 0 ELSE a[1] + Base * NToInt(Tail(a))

RECURSIVE NAddC(_, _, _)
NAddC(a, b, c) ==
    IF a = <<>> /\ b = <<>>
    THEN NOfInt(c)
    ELSE LET s == Limb(a, 1) + Limb(b, 1) + c
         IN  <<s % Base>> \o NAddC(Rest(a), Rest(b), s \div Base)

NAdd(a, b) == NAddC(a, b, 0)

RECURSIVE NLtFrom(_, _, _)
NLtFrom(a, b, i) ==
    IF i = 0 THEN FALSE
    ELSE IF a[i] # b[i] THEN a[i] < b[i]
    ELSE NLtFrom(a, b, i - 1)

NLt(a, b) == IF Len(a) # Len(b) THEN Len(a) < Len(b) ELSE NLtFrom(a, b, Len(a))

NLeq(a, b) == ~NLt(b, a)

\* a - b for a >= b
RECURSIVE NSubB(_, _, _)
NSubB(a, b, borrow) ==
    IF a = <<>> THEN <<>>
    ELSE LET d == a[1] - Limb(b, 1) - borrow
         IN  <<d % Base>> \o NSubB(Tail(a), Rest(b), IF d < 0 THEN 1 ELSE 0)

NSub(a, b) == NTrim(NSubB(a, b, 0))

\* a * m + c for a small m
RECURSIVE NMulSmall(_, _, _)
NMulSmall(a, m, c) ==
    IF a = <<>> THEN NOfInt(c)
    ELSE LET s == a[1] * m + c
         IN  <<s % Base>> \o NMulSmall(Tail(a), m, s \div Base)

RECURSIVE NMulAcc(_, _)
NMulAcc(a, b) ==
    IF b = <<>> THEN <<>>
    ELSE LET hi == NMulAcc(a, Tail(b))
         IN  NAdd(NMulSmall(a, b[1], 0), IF hi = <<>> THEN <<>> ELSE <<0>> \o hi)

NMul(a, b) == NTrim(NMulAcc(a, b))

\* a mod m for a small m
RECURSIVE NModFrom(_, _, _, _)
NModFrom(a, m, i, r) ==
    IF i = 0 THEN r ELSE NModFrom(a, m, i - 1, (r * Base + a[i]) % m)

NModSmall(a, m) == NModFrom(a, m, Len(a), 0)

(***************************************************************************)
(* Integers of any size: a sign and a magnitude; zero is never negative.   *)
(***************************************************************************)
ZMk(neg, mag) == [neg |-> neg /\ mag # <<>>, mag |-> mag]

Z(n) == ZMk(n < 0, NOfInt(IF n < 0 THEN -n ELSE n))

ZToInt(z) == IF z.neg THEN -NToInt(z.mag) ELSE NToInt(z.mag)

ZNeg(z) == ZMk(~z.neg, z.mag)

ZAbs(z) == ZMk(FALSE, z.mag)

ZAdd(a, b) ==
    IF a.neg = b.neg THEN ZMk(a.neg, NAdd(a.mag, b.mag))
    ELSE IF NLt(a.mag, b.mag) THEN ZMk(b.neg, NSub(b.mag, a.mag))
    ELSE ZMk(a.neg, NSub(a.mag, b.mag))

ZSub(a, b) == ZAdd(a, ZNeg(b))

ZMul(a, b) == ZMk(a.neg # b.neg, NMul(a.mag, b.mag))

ZLt(a, b) ==
    IF a.neg # b.neg THEN a.neg
    ELSE IF a.neg THEN NLt(b.mag, a.mag)
    ELSE NLt(a.mag, b.mag)

ZLeq(a, b) == ~ZLt(b, a)

(***************************************************************************)
(* i64: the integers -2^63 .. 2^63 - 1.  An arithmetic                     *)
(* operation whose result leaves the range panics in a build with overflow *)
(* checks (cargo's dev and test profiles) and wraps modulo 2^64 in a build *)
(* without them (the release profile).  The build is not part of the       *)
(* source file, so it is a choice made once, at the start of a run.        *)
(***************************************************************************)
I64_BITS == 64

TwoTo63 == TwoTo(I64_BITS - 1)

TwoTo64 == TwoTo(I64_BITS)

I64_MAX == ZMk(FALSE, NSub(TwoTo63, <<1>>))

I64_MIN == ZMk(TRUE, TwoTo63)

InI64(z) == IF z.neg THEN NLeq(z.mag, TwoTo63) ELSE NLt(z.mag, TwoTo63)

\* The low I64_BITS bits of a natural, and the i64 that z wraps to.
LowBits(a) ==
    LET full == I64_BITS \div LimbBits
        part == 2 ^ (I64_BITS % LimbBits)
    IN  IF Len(a) <= full THEN a
        ELSE NTrim(SubSeq(a, 1, full) \o <<a[full + 1] % part>>)

Wrap(z) ==
    LET low == LowBits(z.mag)
        u   == IF z.neg /\ low # <<>> THEN NSub(TwoTo64, low) ELSE low
    IN  IF NLt(u, TwoTo63) THEN ZMk(FALSE, u) ELSE ZMk(TRUE, NSub(TwoTo64, u))

\* The value of a run of decimal digits, most significant first.
RECURSIVE NOfDigits(_)
NOfDigits(ds) ==
    IF ds = <<>> THEN <<>>
    ELSE NTrim(NMulSmall(NOfDigits(SubSeq(ds, 1, Len(ds) - 1)), 10, ds[Len(ds)]))

ZOfDigits(ds) == ZMk(FALSE, NOfDigits(ds))

VARIABLES
    overflow_checks,  \* the build: TRUE panics on i64 overflow, FALSE wraps
    lines,            \* the input text, a sequence of lines (sequences of characters)
    pc,               \* where main is
    line_no,          \* read_instructions: how many lines have been consumed
    reading,          \* read_instructions: the Vec<Instruction> it is building
    instructions,     \* main: the instructions read_instructions returned
    ship,             \* the Ship of the simulation that is running
    ip,               \* how many instructions the running simulation has consumed
    returned,         \* the (north, east) the last finished simulation returned
    output,           \* the lines printed so far
    panicked,        \* the panic that ended the run, NoPanic while there is none
    order,            \* the two simulations in the order the caller runs them
    rot_in,           \* rotation harness: the arguments <<x, y, rotation>>
    rot_vec,          \* rotation harness: the vector after rot_n applications
    rot_n             \* rotation harness: applications so far

vars == <<overflow_checks, lines, pc, line_no, reading, instructions, ship, ip, returned,
          output, panicked, order, rot_in, rot_vec, rot_n>>

(***************************************************************************)
(* rotate_waypoint (lines 53-60).                                          *)
(*   r     = sqrt((x.pow(2) + y.pow(2)) as f64)                            *)
(*   theta = atan2(y, x) - rotation.to_radians()                           *)
(*   (round(r * cos(theta)), round(r * sin(theta)))                        *)
(* x.pow(2) + y.pow(2) is i64 arithmetic: it panics or wraps on overflow.  *)
(* The rest is f64 arithmetic, modelled by its value in the reals:         *)
(* with t the true x^2 + y^2 and s the i64 the program computed for it,    *)
(* r = sqrt(s), (cos, sin)(atan2(y, x)) = (x, y) / sqrt(t), and turning    *)
(* by a multiple of 90 degrees permutes and negates cos and sin, so each   *)
(* result is round(e * sqrt(s / t)) for e one of x, -x, y, -y; it is e     *)
(* itself when nothing overflowed (s = t).  A negative s makes r a NaN,    *)
(* and `NaN as i64` is 0.                                                  *)
(***************************************************************************)

\* round(e * sqrt(s / t)) for naturals e, s <= t, halves rounded up
\* (f64::round rounds half away from zero): the largest k with k = 0 or
\* (2k - 1)^2 * t <= a, where a = 4 * e^2 * s, found DigitBits bits at a
\* time from the most significant end.
DigitBits == 5

RoundScaledFits(k, a, t) ==
    \/ k = <<>>
    \/ LET d == NSub(NMulSmall(k, 2, 0), <<1>>)
       IN  NLeq(NMul(NMul(d, d), t), a)

RECURSIVE RoundScaledFrom(_, _, _, _)
RoundScaledFrom(acc, pos, a, t) ==
    IF pos < 0 THEN acc
    ELSE LET unit == TwoTo(DigitBits * pos)
             With(d) == NAdd(acc, NMulSmall(unit, d, 0))
             digit == Cardinality({d \in 1..(2 ^ DigitBits - 1) : RoundScaledFits(With(d), a, t)})
             next == IF digit = 0 THEN acc ELSE With(digit)
         IN  IF next = <<>>
             THEN RoundScaledFrom(<<>>, pos - 1, a, t)
             ELSE RoundScaledFrom(next, pos - 1, a, t)

RoundScaled(e, s, t) ==
    LET a == NMulSmall(NMul(NMul(e, e), s), 4, 0)
    IN  IF s = t THEN e
        ELSE IF a = <<>> THEN <<>>
        ELSE RoundScaledFrom(<<>>, (LimbBits \div DigitBits) * Len(e) - 1, a, t)

\* theta - rotation for a rotation of q quarter turns clockwise:
\* (cos, sin)(theta - 90 degrees) = (sin theta, -cos theta).
RECURSIVE QuarterTurns(_, _, _)
QuarterTurns(x, y, q) == IF q = 0 THEN <<x, y>> ELSE QuarterTurns(y, ZNeg(x), q - 1)

DegreesInQuarter == 90

\* The clockwise quarter turns of a rotation that is a multiple of 90 degrees
\* (the only rotations read_instructions lets through, lines 35 and 41).
Quarters(rotation) ==
    LET m == NModSmall(rotation.mag, 4 * DegreesInQuarter) \div DegreesInQuarter
    IN  IF rotation.neg THEN (4 - m) % 4 ELSE m

(***************************************************************************)
(* An f64 has a 53-bit significand.  `rotation as f64`, to_radians and the *)
(* subtraction from theta each round to it, so the angle carries an error  *)
(* of up to about 3 * 2^-53 * |rotation| * pi / 180 radians and each       *)
(* result an error of r times that: below 1/2, hence rounded away, as long *)
(* as r * |rotation| <= 2^53 (the error is then at most 0.06).  Beyond     *)
(* that the result depends on the rounding of the f64 operations: it is    *)
(* the rounding of a vector of length r at an angle that may be off.  The  *)
(* model lets it be any such rounding within MaxDrift of the result in     *)
(* real arithmetic (for a vector of length 1 that is every one of them).   *)
(***************************************************************************)
F64_MANTISSA_DIGITS == 53

TwoTo53 == TwoTo(F64_MANTISSA_DIGITS)

F64Exact(s, rotation) ==
    NLeq(NMul(s, NMul(rotation.mag, rotation.mag)), NMul(TwoTo53, TwoTo53))

MaxDrift == 2

\* <<a, b>> = (round(u), round(w)) for some reals u, w with u^2 + w^2 = s
IsRoundingOfLength(a, b, s) ==
    LET Low(v) == IF v.mag = <<>> THEN <<>> ELSE NSub(NMulSmall(v.mag, 2, 0), <<1>>)
        High(v) == NAdd(NMulSmall(v.mag, 2, 0), <<1>>)
        Square(n) == NMul(n, n)
    IN  /\ NLeq(NAdd(Square(Low(a)), Square(Low(b))), NMulSmall(s, 4, 0))
        /\ NLt(NMulSmall(s, 4, 0), NAdd(Square(High(a)), Square(High(b))))

Returned(x, y) == [panic |-> FALSE, x |-> x, y |-> y]

Panicked == [panic |-> TRUE, x |-> Z(0), y |-> Z(0)]

\* (a rotate_waypoint that returns the vector it was given)
NoRotation(x, y, rotation) == {Returned(x, y)}

\* The set of results the call can have: one, except where f64 rounding decides.
rotate_waypoint(x, y, rotation) ==
    LET xx == ZMul(x, x)
        yy == ZMul(y, y)
        t  == ZAdd(xx, yy)
        overflow == ~InI64(xx) \/ ~InI64(yy) \/ ~InI64(t)
        s  == Wrap(t)
        e  == QuarterTurns(x, y, Quarters(rotation))
        new_x == ZMk(e[1].neg, RoundScaled(e[1].mag, s.mag, t.mag))
        new_y == ZMk(e[2].neg, RoundScaled(e[2].mag, s.mag, t.mag))
        near_x == {ZAdd(new_x, Z(d)) : d \in -MaxDrift..MaxDrift}
        near_y == {ZAdd(new_y, Z(d)) : d \in -MaxDrift..MaxDrift}
    IN  IF overflow /\ overflow_checks THEN {Panicked}
        ELSE IF s.neg THEN {Returned(Z(0), Z(0))}
        ELSE IF F64Exact(s.mag, rotation) THEN {Returned(new_x, new_y)}
        ELSE {Returned(a, b) : <<a, b>> \in
                {v \in near_x \X near_y : IsRoundingOfLength(v[1], v[2], s.mag)}}

(***************************************************************************)
(* read_instructions (lines 15-51).  A line is a sequence of characters, a *)
(* character a one-letter string; "U+0663" stands for ARABIC-INDIC DIGIT   *)
(* THREE, a decimal digit that is not ASCII.  The regex crate's \w and \d  *)
(* are Unicode classes: \d is any decimal digit, \w any letter, digit or   *)
(* underscore.                                                             *)
(***************************************************************************)
AsciiDigits == <<"0", "1", "2", "3", "4", "5", "6", "7", "8", "9">>

Letters == {"N", "S", "E", "W", "F", "R", "L", "X", "n"}

IsAsciiDigit(c) == \E i \in 1..Len(AsciiDigits) : AsciiDigits[i] = c

DigitValue(c) == (CHOOSE i \in 1..Len(AsciiDigits) : AsciiDigits[i] = c) - 1

IsDigit(c) == IsAsciiDigit(c) \/ c = "U+0663"

IsWord(c) == c \in Letters \/ IsDigit(c) \/ c = "_"

\* The end of the longest run of \d that starts at position i.
RECURSIVE DigitRunEnd(_, _)
DigitRunEnd(line, i) ==
    IF i + 1 <= Len(line) /\ IsDigit(line[i + 1]) THEN DigitRunEnd(line, i + 1) ELSE i

NoMatch == [matched |-> FALSE, action |-> "", value |-> <<>>]

\* INSTRUCTION_REGEX.captures(line) for ^(?P<action>\w)(?P<value>\d+)
INSTRUCTION_REGEX(line) ==
    IF Len(line) >= 2 /\ IsWord(line[1]) /\ IsDigit(line[2])
    THEN [matched |-> TRUE, action |-> line[1],
          value |-> SubSeq(line, 2, DigitRunEnd(line, 2))]
    ELSE NoMatch

\* the number a run of ASCII digits writes
DecimalValue(digits) == ZOfDigits([i \in 1..Len(digits) |-> DigitValue(digits[i])])

ParseError == [ok |-> FALSE, value |-> Z(0)]

\* (a parse that wraps a value above i64::MAX instead of returning an Err)
parse_wrapping(digits) ==
    IF \E i \in 1..Len(digits) : ~IsAsciiDigit(digits[i]) THEN ParseError
    ELSE [ok |-> TRUE, value |-> Wrap(DecimalValue(digits))]

\* str::parse::<i64> of a run of \d: an Err for a digit that is not ASCII
\* and for a value above i64::MAX.
parse_i64(digits) ==
    IF \E i \in 1..Len(digits) : ~IsAsciiDigit(digits[i]) THEN ParseError
    ELSE LET v == DecimalValue(digits)
         IN  IF InI64(v) THEN [ok |-> TRUE, value |-> v] ELSE ParseError

Instruction(op, value) == [op |-> op, value |-> value]

Failed(msg) == [panic |-> msg, instruction |-> Instruction("", Z(0))]

Parsed(instruction) == [panic |-> "", instruction |-> instruction]

\* (a parser without the check of lines 35 and 41)
AnyRotationValue(value) == TRUE

\* value % 90 == 0 (lines 35, 41)
IsRotationValue(value) == NModSmall(value.mag, DegreesInQuarter) = 0

\* The body of the for loop (lines 23-47): the instruction of one line, or
\* the panic it ends in.
read_instruction(line) ==
    LET caps == INSTRUCTION_REGEX(line)
        value == parse_i64(caps.value)
    IN  IF ~caps.matched THEN Failed("invalid instruction line")
        ELSE IF ~value.ok THEN Failed("invalid action value")
        ELSE CASE caps.action = "N" -> Parsed(Instruction("North", value.value))
               [] caps.action = "S" -> Parsed(Instruction("South", value.value))
               [] caps.action = "E" -> Parsed(Instruction("East", value.value))
               [] caps.action = "W" -> Parsed(Instruction("West", value.value))
               [] caps.action = "F" -> Parsed(Instruction("Forward", value.value))
               [] caps.action = "R" ->
                    IF ~IsRotationValue(value.value) THEN Failed("invalid rotation")
                    ELSE Parsed(Instruction("Right", value.value))
               [] caps.action = "L" ->
                    IF ~IsRotationValue(value.value) THEN Failed("invalid rotation")
                    ELSE Parsed(Instruction("Left", value.value))
               [] OTHER -> Failed("invalid instruction")

(***************************************************************************)
(* Ship (lines 62-133).                                                    *)
(***************************************************************************)
WAYPOINT_NORTH == 1

WAYPOINT_EAST == 10

ShipNew ==
    [north |-> Z(0), east |-> Z(0),
     waypoint_north |-> Z(WAYPOINT_NORTH), waypoint_east |-> Z(WAYPOINT_EAST),
     facing |-> <<Z(1), Z(0)>>]

\* An i64 operation with the real-number result z panics in a checked build.
Overflows(z) == overflow_checks /\ ~InI64(z)

Stepped(s) == [panic |-> FALSE, ship |-> s]

Aborted(s) == [panic |-> TRUE, ship |-> s]

\* self.field += delta (or -= -delta)
AddTo(s, field, delta) ==
    LET sum == ZAdd(s[field], delta)
    IN  IF Overflows(sum) THEN Aborted(s) ELSE Stepped([s EXCEPT ![field] = Wrap(sum)])

SubFrom(s, field, delta) ==
    LET diff == ZSub(s[field], delta)
    IN  IF Overflows(diff) THEN Aborted(s) ELSE Stepped([s EXCEPT ![field] = Wrap(diff)])

\* self.field += a * b
AddProductTo(s, field, a, b) ==
    LET product == ZMul(a, b)
    IN  IF Overflows(product) THEN Aborted(s) ELSE AddTo(s, field, Wrap(product))

\* (a plot whose Right and Left arms are those of plot_with_waypoint)
TurnWaypointInstead(s, rotation) ==
    {IF o.panic THEN Aborted(s)
     ELSE Stepped([s EXCEPT !.waypoint_east = o.x, !.waypoint_north = o.y]) :
        o \in rotate_waypoint(s.waypoint_east, s.waypoint_north, rotation)}

\* self.facing = rotate_waypoint(x, y, rotation)
TurnFacing(s, rotation) ==
    {IF o.panic THEN Aborted(s) ELSE Stepped([s EXCEPT !.facing = <<o.x, o.y>>]) :
        o \in rotate_waypoint(s.facing[1], s.facing[2], rotation)}

\* (self.waypoint_east, self.waypoint_north) = rotate_waypoint(..., rotation)
TurnWaypoint(s, rotation) ==
    {IF o.panic THEN Aborted(s)
     ELSE Stepped([s EXCEPT !.waypoint_east = o.x, !.waypoint_north = o.y]) :
        o \in rotate_waypoint(s.waypoint_east, s.waypoint_north, rotation)}

\* *degrees * -1
Negated(degrees) == ZMul(degrees, Z(-1))

\* One turn of the loop of plot (lines 83-101): the outcomes it can have.
plot(s, instruction) ==
    LET value == instruction.value
    IN  CASE instruction.op = "North" -> {AddTo(s, "north", value)}
          [] instruction.op = "South" -> {SubFrom(s, "north", value)}
          [] instruction.op = "East" -> {AddTo(s, "east", value)}
          [] instruction.op = "West" -> {SubFrom(s, "east", value)}
          [] instruction.op = "Forward" ->
                LET moved == AddProductTo(s, "north", s.facing[2], value)
                IN  {IF moved.panic THEN moved
                     ELSE AddProductTo(moved.ship, "east", s.facing[1], value)}
          [] instruction.op = "Right" -> TurnFacing(s, value)
          [] instruction.op = "Left" ->
                IF Overflows(Negated(value)) THEN {Aborted(s)}
                ELSE TurnFacing(s, Wrap(Negated(value)))

\* (a plot_with_waypoint whose arms are those of plot)
ArmsOfPlot(s, instruction) == plot(s, instruction)

\* One turn of the loop of plot_with_waypoint (lines 108-129).
plot_with_waypoint(s, instruction) ==
    LET value == instruction.value
    IN  CASE instruction.op = "North" -> {AddTo(s, "waypoint_north", value)}
          [] instruction.op = "South" -> {SubFrom(s, "waypoint_north", value)}
          [] instruction.op = "East" -> {AddTo(s, "waypoint_east", value)}
          [] instruction.op = "West" -> {SubFrom(s, "waypoint_east", value)}
          [] instruction.op = "Forward" ->
                LET moved == AddProductTo(s, "north", value, s.waypoint_north)
                IN  {IF moved.panic THEN moved
                     ELSE AddProductTo(moved.ship, "east", value, s.waypoint_east)}
          [] instruction.op = "Right" -> TurnWaypoint(s, value)
          [] instruction.op = "Left" ->
                IF Overflows(Negated(value)) THEN {Aborted(s)}
                ELSE TurnWaypoint(s, Wrap(Negated(value)))

\* north.abs() + east.abs() (lines 138, 141)
manhattan(position) ==
    LET n == ZAbs(position[1])
        e == ZAbs(position[2])
        sum == ZAdd(Wrap(n), Wrap(e))
    IN  IF Overflows(n) \/ Overflows(e) \/ Overflows(sum)
        THEN [panic |-> TRUE, value |-> Z(0)]
        ELSE [panic |-> FALSE, value |-> Wrap(sum)]

(***************************************************************************)
(* The inputs.  input.txt is not part of the source file: main is run on   *)
(* every sequence of at most MaxLines lines of LinePool, and on the        *)
(* journey the tests use.                                                  *)
(***************************************************************************)
MaxLines == 2

I64_MAX_DIGITS ==
    <<"9", "2", "2", "3", "3", "7", "2", "0", "3", "6", "8", "5", "4", "7", "7", "5", "8", "0", "7">>

\* 3037000500^2 is the first square above i64::MAX
SQRT_OVERFLOW_DIGITS == <<"3", "0", "3", "7", "0", "0", "0", "5", "0", "0">>

\* a multiple of 90 beyond what an f64 angle resolves
HUGE_ROTATION_DIGITS ==
    <<"3", "1", "5", "7", "7", "5", "3", "7", "8", "4", "6", "5", "7", "5", "4", "2", "2", "0">>

TEST_JOURNEY ==
    << <<"F", "1", "0">>, <<"N", "3">>, <<"F", "7">>, <<"R", "9", "0">>, <<"F", "1", "1">> >>

LinePool ==
    { <<"F", "1", "0">>, <<"N", "3">>, <<"R", "9", "0">>, <<"L", "1", "8", "0">>,
      <<"S", "3">>,
      <<"E">> \o SQRT_OVERFLOW_DIGITS, <<"N">> \o I64_MAX_DIGITS,
      <<"E">> \o I64_MAX_DIGITS,
      <<"R">> \o HUGE_ROTATION_DIGITS,
      <<"X", "5">> }

SeqsUpTo(S, n) == UNION {[1..k -> S] : k \in 0..n}

RunOrder == <<"plot", "plot_with_waypoint">>

NoShip ==
    [north |-> Z(0), east |-> Z(0), waypoint_north |-> Z(0), waypoint_east |-> Z(0),
     facing |-> <<Z(0), Z(0)>>]

NoPanic == [at |-> "", msg |-> ""]

RotateIdle ==
    /\ rot_in = <<Z(0), Z(0), Z(0)>>
    /\ rot_vec = <<Z(0), Z(0)>>
    /\ rot_n = 0

InitMain(inputs, orders) ==
    /\ overflow_checks \in BOOLEAN
    /\ lines \in inputs
    /\ order \in orders
    /\ pc = "read_instructions"
    /\ line_no = 0
    /\ reading = <<>>
    /\ instructions = <<>>
    /\ ship = NoShip
    /\ ip = 0
    /\ returned = <<Z(0), Z(0)>>
    /\ output = <<>>
    /\ panicked = NoPanic
    /\ RotateIdle

Init == InitMain(SeqsUpTo(LinePool, MaxLines) \cup {TEST_JOURNEY}, {RunOrder})

(***************************************************************************)
(* main (lines 135-142) and the loops it runs.                             *)
(***************************************************************************)
\* A panic ends the process with its message and the function it was raised in.
Panic(msg) ==
    /\ pc' = "panicked"
    /\ panicked' = [at |-> pc, msg |-> msg]

\* read_instructions: one turn of `for line in lines` (lines 22-49)
ReadLine ==
    /\ pc = "read_instructions"
    /\ line_no < Len(lines)
    /\ LET r == read_instruction(lines[line_no + 1])
       IN  IF r.panic # ""
           THEN /\ Panic(r.panic)
                /\ reading' = <<>>
                /\ UNCHANGED line_no
           ELSE /\ reading' = Append(reading, r.instruction)
                /\ line_no' = line_no + 1
                /\ UNCHANGED <<pc, panicked>>
    /\ UNCHANGED <<overflow_checks, lines, instructions, ship, ip, returned, output,
                   order, rot_in, rot_vec, rot_n>>

\* (a main that starts the simulations before the loop has consumed every line)
ReadReturnBeforeEnd ==
    /\ pc = "read_instructions"
    /\ instructions' = reading
    /\ pc' = "start"
    /\ UNCHANGED <<overflow_checks, lines, line_no, reading, ship, ip, returned, output,
                   panicked, order, rot_in, rot_vec, rot_n>>

\* read_instructions returns its Vec to main (lines 50, 136)
ReadReturn ==
    /\ pc = "read_instructions"
    /\ line_no = Len(lines)
    /\ instructions' = reading
    /\ pc' = "start"
    /\ UNCHANGED <<overflow_checks, lines, line_no, reading, ship, ip, returned, output,
                   panicked, order, rot_in, rot_vec, rot_n>>

\* (a main that runs both simulations on one Ship)
ShipReused(previous) == IF previous = NoShip THEN ShipNew ELSE previous

\* The Ship a simulation is run on: Ship::new() (lines 137, 140)
ShipFor(previous) == ShipNew

\* Ship::new().plot(..) or Ship::new().plot_with_waypoint(..) is entered
StartSimulation ==
    /\ pc = "start"
    /\ ship' = ShipFor(ship)
    /\ ip' = 0
    /\ pc' = order[Len(output) + 1]
    /\ UNCHANGED <<overflow_checks, lines, line_no, reading, instructions, returned,
                   output, panicked, order, rot_in, rot_vec, rot_n>>

Simulate(outcomes) ==
    \E o \in outcomes :
        IF o.panic
        THEN /\ Panic("arithmetic overflow")
             /\ UNCHANGED <<ship, ip>>
        ELSE /\ ship' = o.ship
             /\ ip' = ip + 1
             /\ UNCHANGED <<pc, panicked>>

\* plot: one turn of `for instruction in instructions` (lines 82-102)
PlotStep ==
    /\ pc = "plot"
    /\ ip < Len(instructions)
    /\ Simulate(plot(ship, instructions[ip + 1]))
    /\ UNCHANGED <<overflow_checks, lines, line_no, reading, instructions, returned,
                   output, order, rot_in, rot_vec, rot_n>>

\* plot_with_waypoint: one turn of its loop (lines 107-130)
WaypointStep ==
    /\ pc = "plot_with_waypoint"
    /\ ip < Len(instructions)
    /\ Simulate(plot_with_waypoint(ship, instructions[ip + 1]))
    /\ UNCHANGED <<overflow_checks, lines, line_no, reading, instructions, returned,
                   output, order, rot_in, rot_vec, rot_n>>

\* (self.north, self.east) is returned (lines 103, 131)
SimulationReturn ==
    /\ pc \in {"plot", "plot_with_waypoint"}
    /\ ip = Len(instructions)
    /\ returned' = <<ship.north, ship.east>>
    /\ pc' = "println"
    /\ UNCHANGED <<overflow_checks, lines, line_no, reading, instructions, ship, ip,
                   output, panicked, order, rot_in, rot_vec, rot_n>>

OutputLine(n) == [text |-> "manhattan distance is ", n |-> n]

\* println!("manhattan distance is {}", north.abs() + east.abs()) (lines 138, 141)
Println ==
    /\ pc = "println"
    /\ LET m == manhattan(returned)
       IN  IF m.panic
           THEN /\ Panic("arithmetic overflow")
                /\ UNCHANGED output
           ELSE /\ output' = Append(output, OutputLine(m.value))
                /\ pc' = IF Len(output) + 1 < Len(order) THEN "start" ELSE "exit"
                /\ UNCHANGED panicked
    /\ UNCHANGED <<overflow_checks, lines, line_no, reading, instructions, ship, ip,
                   returned, order, rot_in, rot_vec, rot_n>>

Next ==
    \/ ReadLine
    \/ ReadReturn
    \/ StartSimulation
    \/ PlotStep
    \/ WaypointStep
    \/ SimulationReturn
    \/ Println

Spec == Init /\ [][Next]_vars

(***************************************************************************)
(* rotate_waypoint on its own, as tests::rotation_is_correctly_applied     *)
(* calls it (lines 156-167), and called again on its own result with the   *)
(* same rotation, up to RotateCalls times.  The vectors are the headings,  *)
(* waypoints that plot_with_waypoint reaches (N3 makes <<10, 4>>,          *)
(* E3037000500 makes <<3037000510, 1>>), and a few others.                 *)
(***************************************************************************)
RotateCalls == 4

UnitVectors == {<<Z(1), Z(0)>>, <<Z(0), Z(-1)>>, <<Z(-1), Z(0)>>, <<Z(0), Z(1)>>}

FarWaypoint ==
    <<ZAdd(Z(WAYPOINT_EAST), DecimalValue(SQRT_OVERFLOW_DIGITS)), Z(WAYPOINT_NORTH)>>

WaypointVectors ==
    {<<Z(WAYPOINT_EAST), Z(WAYPOINT_NORTH)>>, <<Z(WAYPOINT_EAST), Z(4)>>,
     <<Z(1), Z(-10)>>, <<Z(-10), Z(-1)>>, <<Z(-4), Z(10)>>, FarWaypoint}

OtherVectors == {<<Z(0), Z(0)>>, <<Z(1), Z(1)>>, <<Z(-3), Z(7)>>, <<Z(0), Z(25)>>}

HUGE_ROTATION == DecimalValue(HUGE_ROTATION_DIGITS)

Rotations ==
    {Z(DegreesInQuarter * k) : k \in -5..5} \cup {HUGE_ROTATION, ZNeg(HUGE_ROTATION)}

InitRotate ==
    /\ overflow_checks \in BOOLEAN
    /\ \E v \in UnitVectors \cup WaypointVectors \cup OtherVectors, d \in Rotations :
            /\ rot_in = <<v[1], v[2], d>>
            /\ rot_vec = v
    /\ rot_n = 0
    /\ pc = "rotate_waypoint"
    /\ lines = <<>>
    /\ order = RunOrder
    /\ line_no = 0
    /\ reading = <<>>
    /\ instructions = <<>>
    /\ ship = NoShip
    /\ ip = 0
    /\ returned = <<Z(0), Z(0)>>
    /\ output = <<>>
    /\ panicked = NoPanic

\* rot_vec = rotate_waypoint(rot_vec.0, rot_vec.1, rotation)
Rotate ==
    /\ pc = "rotate_waypoint"
    /\ rot_n < RotateCalls
    /\ \E o \in rotate_waypoint(rot_vec[1], rot_vec[2], rot_in[3]) :
            IF o.panic
            THEN /\ Panic("arithmetic overflow")
                 /\ UNCHANGED <<rot_vec, rot_n>>
            ELSE /\ rot_vec' = <<o.x, o.y>>
                 /\ rot_n' = rot_n + 1
                 /\ UNCHANGED <<pc, panicked>>
    /\ UNCHANGED <<overflow_checks, lines, line_no, reading, instructions, ship, ip,
                   returned, output, order, rot_in>>

NextRotate == Rotate

SpecRotate == InitRotate /\ [][NextRotate]_vars

(***************************************************************************)
(* The closed-form rule for a rotation by a multiple of 90 degrees, in     *)
(* unbounded integers: <<x, y>> -> <<y, -x>> for each clockwise step and   *)
(* <<x, y>> -> <<-y, x>> for each counter-clockwise one.  Four steps are   *)
(* the identity, so |degrees| / 90 steps are applied modulo four.          *)
(***************************************************************************)
Clockwise(v) == <<v[2], ZNeg(v[1])>>

CounterClockwise(v) == <<ZNeg(v[2]), v[1]>>

RECURSIVE Stepped90(_, _, _)
Stepped90(v, clockwise, steps) ==
    IF steps = 0 THEN v
    ELSE Stepped90(IF clockwise THEN Clockwise(v) ELSE CounterClockwise(v),
                   clockwise, steps - 1)

ClosedFormRotation(v, degrees) ==
    Stepped90(v, ~degrees.neg, NModSmall(degrees.mag, 360) \div 90)

RotateIn == <<rot_in[1], rot_in[2]>>

RotatePanicked == pc = "panicked" /\ panicked.at = "rotate_waypoint"

\* C3: rotate_waypoint(x, y, degrees) returns, for every integer vector and
\* every signed multiple of 90, the vector the closed-form rule gives.
C3_Original ==
    /\ ~RotatePanicked
    /\ pc = "rotate_waypoint" /\ rot_n = 1
            => rot_vec = ClosedFormRotation(RotateIn, rot_in[3])

\* C4: four calls of rotate_waypoint with the same multiple of 90, each on
\* the result of the one before, return the heading or waypoint vector the
\* first was given.
C4_Original ==
    RotateIn \in UnitVectors \cup WaypointVectors =>
        /\ ~RotatePanicked
        /\ pc = "rotate_waypoint" /\ rot_n = RotateCalls => rot_vec = RotateIn

(***************************************************************************)
(* The rules of the two simulators in unbounded integers, with the         *)
(* closed-form rotation.  A vector is <<east, north>>.                     *)
(***************************************************************************)
RulesStart ==
    [north |-> Z(0), east |-> Z(0), heading |-> <<Z(1), Z(0)>>,
     waypoint |-> <<Z(10), Z(1)>>]

HeadingRule(s, instruction) ==
    LET v == instruction.value
    IN  CASE instruction.op = "North" -> [s EXCEPT !.north = ZAdd(@, v)]
          [] instruction.op = "South" -> [s EXCEPT !.north = ZSub(@, v)]
          [] instruction.op = "East" -> [s EXCEPT !.east = ZAdd(@, v)]
          [] instruction.op = "West" -> [s EXCEPT !.east = ZSub(@, v)]
          [] instruction.op = "Forward" ->
                [s EXCEPT !.north = ZAdd(@, ZMul(s.heading[2], v)),
                          !.east = ZAdd(@, ZMul(s.heading[1], v))]
          [] instruction.op = "Right" ->
                [s EXCEPT !.heading = ClosedFormRotation(@, v)]
          [] instruction.op = "Left" ->
                [s EXCEPT !.heading = ClosedFormRotation(@, ZNeg(v))]

WaypointRule(s, instruction) ==
    LET v == instruction.value
    IN  CASE instruction.op = "North" -> [s EXCEPT !.waypoint[2] = ZAdd(@, v)]
          [] instruction.op = "South" -> [s EXCEPT !.waypoint[2] = ZSub(@, v)]
          [] instruction.op = "East" -> [s EXCEPT !.waypoint[1] = ZAdd(@, v)]
          [] instruction.op = "West" -> [s EXCEPT !.waypoint[1] = ZSub(@, v)]
          [] instruction.op = "Forward" ->
                [s EXCEPT !.north = ZAdd(@, ZMul(v, s.waypoint[2])),
                          !.east = ZAdd(@, ZMul(v, s.waypoint[1]))]
          [] instruction.op = "Right" ->
                [s EXCEPT !.waypoint = ClosedFormRotation(@, v)]
          [] instruction.op = "Left" ->
                [s EXCEPT !.waypoint = ClosedFormRotation(@, ZNeg(v))]

RECURSIVE RulesFrom(_, _, _, _)
RulesFrom(simulator, s, instrs, i) ==
    IF i > Len(instrs) THEN s
    ELSE RulesFrom(simulator,
                   IF simulator = "plot" THEN HeadingRule(s, instrs[i])
                   ELSE WaypointRule(s, instrs[i]),
                   instrs, i + 1)

RulesResult(simulator, instrs) ==
    LET s == RulesFrom(simulator, RulesStart, instrs, 1) IN <<s.north, s.east>>

Distance(position) == ZAdd(ZAbs(position[1]), ZAbs(position[2]))

\* the simulation that is running or has just returned
Running == order[Len(output) + 1]

PanickedIn(simulator) == pc = "panicked" /\ panicked.at = simulator

ReturnedFrom(simulator) == pc = "println" /\ Running = simulator

\* C1: for every instruction sequence Ship::new().plot returns the position
\* the heading rules give, and for F10, N3, F7, R90, F11 its Manhattan
\* distance is 25.
C1_Original ==
    /\ ~PanickedIn("plot")
    /\ ReturnedFrom("plot") => returned = RulesResult("plot", instructions)
    /\ ReturnedFrom("plot") /\ lines = TEST_JOURNEY => Distance(returned) = Z(25)

\* C2: for every instruction sequence Ship::new().plot_with_waypoint returns
\* the position the waypoint rules give, and for F10, N3, F7, R90, F11 its
\* Manhattan distance is 286.
C2_Original ==
    /\ ~PanickedIn("plot_with_waypoint")
    /\ ReturnedFrom("plot_with_waypoint")
            => returned = RulesResult("plot_with_waypoint", instructions)
    /\ ReturnedFrom("plot_with_waypoint") /\ lines = TEST_JOURNEY
            => Distance(returned) = Z(286)

\* C10: plot has no error paths: on every instruction sequence the parser
\* accepts it consumes the whole sequence and returns without aborting.
C10_Original == ~PanickedIn("plot")

(***************************************************************************)
(* main as a whole.                                                        *)
(***************************************************************************)
AllRead == line_no = Len(lines) /\ Len(reading) = Len(lines)

\* C6: parsing of the complete input finishes before either simulation
\* starts, and a line is printed only after every input line has been
\* parsed successfully; after a parse failure nothing is printed.
C6_ParseFirst ==
    /\ pc \notin {"read_instructions", "panicked"} => AllRead
    /\ ship # NoShip \/ ip # 0 \/ output # <<>> => AllRead
    /\ PanickedIn("read_instructions") => output = <<>> /\ ship = NoShip

C6_Witness == Len(output) = 2 /\ Len(lines) >= 2

\* C7: on valid input main prints exactly two lines, first the Manhattan
\* distance |north| + |east| of the position plot returned, then that of
\* the position plot_with_waypoint returned for the same instructions.
C7_Original ==
    /\ pc = "panicked" => panicked.at = "read_instructions"
    /\ pc = "exit" => Len(output) = 2
    /\ Len(output) <= 2
    /\ output # <<>> /\ pc \in {"start", "exit"}
            => output[Len(output)] = OutputLine(Distance(returned))
    /\ ReturnedFrom("plot") => Len(output) = 0
    /\ ReturnedFrom("plot_with_waypoint") => Len(output) = 1

(***************************************************************************)
(* A caller that runs the two simulations in either order, each the way    *)
(* main does: Ship::new().plot(&instructions) and                          *)
(* Ship::new().plot_with_waypoint(&instructions).                          *)
(***************************************************************************)
OrderPool ==
    { <<"F", "1", "0">>, <<"N", "3">>, <<"R", "9", "0">>, <<"L", "1", "8", "0">>,
      <<"W", "7">>, <<"E">> \o SQRT_OVERFLOW_DIGITS, <<"N">> \o I64_MAX_DIGITS }

InitOrder ==
    InitMain(SeqsUpTo(OrderPool, MaxLines) \cup {TEST_JOURNEY},
             {RunOrder, <<RunOrder[2], RunOrder[1]>>})

NextOrder == Next

SpecOrder == InitOrder /\ [][NextOrder]_vars

\* The ships a simulation can end with when it is run from the Ships of
\* `ships` on instrs[i..], on its own.
RECURSIVE RunAlone(_, _, _, _)
RunAlone(simulator, ships, instrs, i) ==
    IF i > Len(instrs) THEN ships
    ELSE LET Outcomes(s) == IF simulator = "plot" THEN plot(s, instrs[i])
                            ELSE plot_with_waypoint(s, instrs[i])
             after == UNION {{o.ship : o \in {o \in Outcomes(s) : ~o.panic}} : s \in ships}
         IN  RunAlone(simulator, after, instrs, i + 1)

ResultsAlone(simulator, instrs) ==
    {<<s.north, s.east>> : s \in RunAlone(simulator, {ShipNew}, instrs, 1)}

\* C8: each simulation starts from a fresh Ship (position (0,0), heading
\* (1,0), waypoint east 10 north 1), returns what it returns when it is run
\* on its own, whichever simulation ran before it, and leaves the instruction
\* sequence as read_instructions returned it.
C8_Independent ==
    /\ pc \in {"plot", "plot_with_waypoint"} /\ ip = 0 => ship = ShipNew
    /\ pc = "println" => returned \in ResultsAlone(Running, instructions)
    /\ pc # "read_instructions" => instructions = reading

C8_Witness ==
    /\ ReturnedFrom("plot")
    /\ Len(output) = 1
    /\ Len(instructions) >= 2
    /\ returned # <<Z(0), Z(0)>>

(***************************************************************************)
(* read_instructions on its own, as the tests call it (lines 171, 179), on *)
(* every sequence of at most MaxLines lines of ReadPool.                   *)
(***************************************************************************)
I64_OVERFLOW_DIGITS ==
    <<"9", "2", "2", "3", "3", "7", "2", "0", "3", "6", "8", "5", "4", "7", "7", "5", "8", "0", "8">>

ReadPool ==
    { <<"F", "1", "0">>, <<"N", "3">>, <<"R", "9", "0">>, <<"L", "1", "8", "0">>,
      <<"S", "0", "0", "7">>, <<"W", "7", " ", "E", "2">>, <<"E", "4", ".", "5">>,
      <<"R", "0", "X">>, <<"N">> \o I64_MAX_DIGITS,
      <<"F">>, <<>>, <<"X", "5">>, <<"R", "4", "5">>, <<"L", "1", "0", "0">>,
      <<"5", "5">>, <<" ", "F", "1", "0">>, <<"_", "1">>, <<"n", "3">>,
      <<"F", "-", "5">>, <<"N">> \o I64_OVERFLOW_DIGITS,
      <<"F", "U+0663">>, <<"F", "1", "U+0663">> }

InitRead == InitMain(SeqsUpTo(ReadPool, MaxLines), {RunOrder})

NextRead == ReadLine \/ ReadReturn

SpecRead == InitRead /\ [][NextRead]_vars

(***************************************************************************)
(* What the parser is to make of a line: an action letter of N, S, E, W,   *)
(* F, R, L, then the longest run of decimal digits 0-9, then anything.     *)
(***************************************************************************)
ActionNames ==
    [N |-> "North", S |-> "South", E |-> "East", W |-> "West", F |-> "Forward",
     R |-> "Right", L |-> "Left"]

RECURSIVE DecimalRunEnd(_, _)
DecimalRunEnd(line, i) ==
    IF i + 1 <= Len(line) /\ IsAsciiDigit(line[i + 1]) THEN DecimalRunEnd(line, i + 1)
    ELSE i

DecimalRun(line) == SubSeq(line, 2, DecimalRunEnd(line, 1))

LacksDigits(line) == Len(line) < 2 \/ ~IsAsciiDigit(line[2])

UnknownAction(line) == line = <<>> \/ line[1] \notin DOMAIN ActionNames

BadRotation(line) ==
    /\ ~LacksDigits(line)
    /\ line[1] \in {"R", "L"}
    /\ NModSmall(DecimalValue(DecimalRun(line)).mag, 90) # 0

TooLarge(line) == ~LacksDigits(line) /\ ~InI64(DecimalValue(DecimalRun(line)))

BadLine(line) ==
    LacksDigits(line) \/ UnknownAction(line) \/ BadRotation(line) \/ TooLarge(line)

InstructionOf(line) == Instruction(ActionNames[line[1]], DecimalValue(DecimalRun(line)))

AtBadLine ==
    /\ pc = "read_instructions"
    /\ line_no < Len(lines)
    /\ BadLine(lines[line_no + 1])

\* C5: read_instructions aborts the run, returning nothing, at a line that
\* (a) does not start with one character and a decimal digit, (b) has an
\* action letter outside N, S, E, W, F, R, L, (c) is an R or L line whose
\* magnitude is not divisible by 90, or (d) has a digit run that does not
\* fit an i64, wherever in the input the line is.
C5_Aborts ==
    /\ [](\A i \in 1..line_no : ~BadLine(lines[i]))
    /\ [](pc = "start" => \A i \in 1..Len(lines) : ~BadLine(lines[i]))
    /\ [](pc = "panicked" => instructions = <<>> /\ reading = <<>> /\ output = <<>>)
    /\ [][AtBadLine => PanickedIn("read_instructions")']_vars

C5_Witness ==
    /\ PanickedIn("read_instructions")
    /\ line_no >= 1
    /\ BadLine(lines[line_no + 1])

\* C9: for every sequence of valid lines read_instructions returns one
\* instruction per line, in input order, that the line's action letter and
\* the decimal value of the digit run after it determine; what follows the
\* digit run is ignored.
C9_Original ==
    LET valid == \A i \in 1..Len(lines) : ~BadLine(lines[i])
    IN  /\ valid => pc # "panicked"
        /\ valid /\ pc = "start" =>
                /\ Len(instructions) = Len(lines)
                /\ \A i \in 1..Len(lines) : instructions[i] = InstructionOf(lines[i])

(***************************************************************************)
(* The pair of instructions R90 and F10, in its two orders.                *)
(***************************************************************************)
R90_F10 == <<Instruction("Right", Z(90)), Instruction("Forward", Z(10))>>

Swapped(pair) == <<pair[2], pair[1]>>

\* C11: run from a fresh Ship, R90 then F10 and F10 then R90 end in
\* different positions, in plot and in plot_with_waypoint.
C11_OrderSensitive ==
    pc = "println" /\ instructions \in {R90_F10, Swapped(R90_F10)}
        => returned \notin ResultsAlone(Running, Swapped(instructions))

C11_Witness ==
    /\ ReturnedFrom("plot_with_waypoint")
    /\ instructions = R90_F10
    /\ returned = <<Z(-100), Z(10)>>

(***************************************************************************)
(* The invariant of the instructions read_instructions builds and returns. *)
(***************************************************************************)
WellFormed(instruction) ==
    /\ ~instruction.value.neg
    /\ instruction.op \in {"Right", "Left"} => NModSmall(instruction.value.mag, 90) = 0

\* C12: every instruction read_instructions returns has a non-negative
\* magnitude, and every Right and Left a magnitude that is a multiple of 90.
C12_WellFormed ==
    /\ \A i \in 1..Len(reading) : WellFormed(reading[i])
    /\ \A i \in 1..Len(instructions) : WellFormed(instructions[i])

C12_Witness ==
    /\ pc = "start"
    /\ Len(instructions) = 2
    /\ instructions[1] = Instruction("Left", Z(180))
    /\ instructions[2].op = "North" /\ instructions[2].value = I64_MAX

(***************************************************************************)
(* What one instruction of a simulation leaves alone.                      *)
(***************************************************************************)
Position(s) == <<s.north, s.east>>

Waypoint(s) == <<s.waypoint_east, s.waypoint_north>>

\* the instruction the running simulation is at
AtOp(simulator, ops) ==
    /\ pc = simulator
    /\ ip < Len(instructions)
    /\ instructions[ip + 1].op \in ops

\* C13: in plot_with_waypoint a North, South, East, West, Right or Left
\* changes nothing but the waypoint, so the position stays, and a Forward
\* changes nothing but the position, so the waypoint stays.
C13_WaypointFrame ==
    [][/\ AtOp("plot_with_waypoint", {"North", "South", "East", "West", "Right", "Left"})
            => Position(ship') = Position(ship) /\ ship'.facing = ship.facing
       /\ AtOp("plot_with_waypoint", {"Forward"})
            => Waypoint(ship') = Waypoint(ship) /\ ship'.facing = ship.facing]_vars

C13_Witness ==
    /\ pc = "plot_with_waypoint"
    /\ ip = 2
    /\ instructions[1].op = "Forward"
    /\ instructions[2].op = "Right"
    /\ Position(ship) = <<Z(10), Z(100)>>
    /\ Waypoint(ship) = <<Z(1), Z(-10)>>

(***************************************************************************)
(* The pass a simulation makes over the instructions.                      *)
(***************************************************************************)
Simulating == pc \in {"plot", "plot_with_waypoint"}

\* C14: a simulation applies instruction 1, then 2, ..., then n, each once
\* and in order, and then terminates returning the position reached after
\* the n-th; for no instructions it returns (0, 0).
C14_Original ==
    /\ ~PanickedIn("plot") /\ ~PanickedIn("plot_with_waypoint")
    /\ Simulating =>
            /\ ip \in 0..Len(instructions)
            /\ ship \in RunAlone(pc, {ShipNew}, SubSeq(instructions, 1, ip), 1)
    /\ pc = "println" =>
            /\ ip = Len(instructions)
            /\ returned = Position(ship)
            /\ instructions = <<>> => returned = <<Z(0), Z(0)>>

C16_HeadingFrame ==
    [][/\ AtOp("plot", {"Right", "Left"}) => Position(ship') = Position(ship)
       /\ AtOp("plot", {"North", "South", "East", "West", "Forward"})
            => ship'.facing = ship.facing
       /\ pc = "plot" => Waypoint(ship') = Waypoint(ship)
       /\ pc = "plot_with_waypoint" => ship'.facing = ship.facing]_vars

C16_Witness ==
    /\ pc = "plot"
    /\ ip = 2
    /\ instructions[1].op = "Right"
    /\ instructions[2].op = "Forward"
    /\ ship.facing = <<Z(0), Z(-1)>>
    /\ Position(ship) = <<Z(-10), Z(0)>>
    /\ Waypoint(ship) = Waypoint(ShipNew)

(***************************************************************************)
(* main on inputs that end in a rotation and the opposite rotation by the  *)
(* same number of degrees, after a prefix that brings the Ship to some     *)
(* other state first.                                                      *)
(***************************************************************************)
PairDegrees ==
    { <<"0">>, <<"9", "0">>, <<"1", "8", "0">>, <<"2", "7", "0">>, <<"3", "6", "0">>,
      HUGE_ROTATION_DIGITS }

PairPrefixes ==
    { <<>>, << <<"N", "3">> >>, << <<"F", "1", "0">> >>, << <<"R", "9", "0">> >>,
      << <<"W", "7">>, <<"L", "1", "8", "0">> >>, << <<"E">> \o SQRT_OVERFLOW_DIGITS >> }

PairInputs ==
    {prefix \o << <<turn[1]>> \o d, <<turn[2]>> \o d >> :
        prefix \in PairPrefixes, d \in PairDegrees, turn \in {<<"R", "L">>, <<"L", "R">>}}

InitPair == InitMain(PairInputs, {RunOrder})

NextPair == Next

SpecPair == InitPair /\ [][NextPair]_vars

\* the Ships the running simulation can have before the pair of rotations
BeforePair == RunAlone(Running, {ShipNew}, SubSeq(instructions, 1, Len(instructions) - 2), 1)

OutcomesOf(simulator, s, instruction) ==
    IF simulator = "plot" THEN plot(s, instruction) ELSE plot_with_waypoint(s, instruction)

\* C17: Right(d) followed at once by Left(d), and Left(d) followed by
\* Right(d), bring the heading (in plot) or the waypoint (in
\* plot_with_waypoint) back to what it was and leave the position alone, for
\* every multiple d of 90; and Left(d) does what Right(360 - d) does for d
\* of 90, 180, 270.
C17_Original ==
    /\ ~(PanickedIn("plot") \/ PanickedIn("plot_with_waypoint"))
    /\ pc = "println" => ship \in BeforePair
    /\ Simulating /\ AtOp(pc, {"Left"})
         /\ instructions[ip + 1].value \in {Z(90), Z(180), Z(270)}
            => OutcomesOf(pc, ship, instructions[ip + 1])
                 = OutcomesOf(pc, ship,
                              Instruction("Right", ZSub(Z(360), instructions[ip + 1].value)))

====
